---- MODULE Spec2Model ----
(***************************************************************************)
(* Lanes of src/Lane.cc feeding the RNTuple sink of                         *)
(* src/RNTupleOutputer.cc.  N lanes claim event indices from one atomic     *)
(* counter, seek the shared source, fan out one getAsync per data-product   *)
(* slot, join on a reference-counted TaskHolder, and hand the finished      *)
(* event to outputAsync, which pushes collateProducts on a serial queue.    *)
(*                                                                         *)
(* A tbb::task_group is a bag of runnable tasks; the source, the waiters    *)
(* and the serial queue hold the continuations they were given until the    *)
(* operation completes.  A TaskHolder chain is a sequence of stage names    *)
(* ending in "holder", the outer token of processEventAsync.                *)
(***************************************************************************)
EXTENDS Integers, Sequences, FiniteSets, Bags, TLC

\* ---------------------------------------------------------------- bounds
MaxLanes == 2       \* lanes of a run: 1 .. MaxLanes
MaxEvents == 2      \* events of the source: 0 .. MaxEvents
MaxSlots == 2       \* data-product slots of a lane: 0 .. MaxSlots
MaxTotalSlots == 3  \* slots of all lanes together: nLanes * nSlots

VARIABLES
  nLanes,                 \* the number of Lane objects
  M,                      \* the source holds events 0 .. M-1
  nSlots,                 \* source_->dataProducts(l).size(), the same for every lane
  iScaleFactor,           \* the Lane constructor's argument
  usesProductReadyAsync,  \* the sink's capability query
  index,                  \* std::atomic<long>& index
  group,                  \* tbb::task_group: bag of runnable tasks
  seeks,                  \* gotoEventAsync operations the source has not completed
  laneEvent,              \* the event each lane's retrievers are positioned at
  gets,                   \* getAsync operations the source has not completed
  storage,                \* storage[l][i]: the event whose data slot i of lane l holds
  waits,                  \* waitAsync delays that have not elapsed
  frames,                 \* processEventAsync calls that issued their fan-out and have not returned
  holderCount,            \* reference count of the outer TaskHolder of each event
  holderReleases,         \* releases of the outer TaskHolder of each event so far
  collateQueue_,          \* operations pushed and not yet started
  queueRunning,           \* offset of the operation the serial queue is running, or -1
  collating,              \* collateProducts executions in progress
  eventGlobalOffset_,
  id_,                    \* the shared EventIdentifier bound to the "EventID" field
  ntuple_,                \* entries filled, in Fill order
  claimed,                \* every index++ so far, in order, with the lane that made it
  seekFailures,           \* gotoEventAsync operations the source gave up on
  stages,                 \* stages[l][i]: what has happened to slot i of lane l for the lane's present event, in order
  outputLog,              \* every outputAsync call so far, in order
  ntupleCreated,          \* "ntuple_" is not null: the RNTupleWriter exists
  idMade,                 \* "id_" is not null
  fieldIDs_,              \* field names registered by lane 0's setup, in order
  entries_,               \* entries_[l]: the ptrs of lane l, in order
  setupDone,              \* lanes whose setupForLane has returned
  thrown                  \* lanes whose setupForLane has thrown logic_error

\* What setupForLane writes; fixed once the lanes run
setupVars == <<ntupleCreated, idMade, fieldIDs_, entries_, setupDone, thrown>>
config == <<nLanes, M, nSlots, iScaleFactor, usesProductReadyAsync, setupVars>>
laneVars == <<index, group, seeks, laneEvent, gets, storage, waits, frames,
              holderCount, holderReleases, claimed, seekFailures, stages>>
sinkVars == <<collateQueue_, queueRunning, collating, eventGlobalOffset_, id_,
              ntuple_, outputLog>>
vars == <<config, laneVars, sinkVars>>

\* ---------------------------------------------------------------- helpers
Lanes == 0 .. (nLanes - 1)
Events == 0 .. (M - 1)

Task(kind, l, i, e, tok) ==
  [kind |-> kind, lane |-> l, slot |-> i, ev |-> e, tok |-> tok]

One(t) == SetToBag({t})

doNextEventTask(l) == Task("doNextEvent", l, -1, -1, <<>>)

TasksOf(kind, l) == {t \in BagToSet(group) : t.kind = kind /\ t.lane = l}

\* SharedSourceBase::dataProducts(lane): the lane's slots, in slot order
dataProducts == 0 .. (nSlots - 1)

\* DataProductRetriever::name of slot i (no slot is named "EventAuxiliary") and
\* the name of the field of the shared id_
name(i) == <<"product", i>>
EventID == <<"EventID", -1>>

\* DataProductRetriever::address of slot i of lane l
address(l, i) == <<l, i>>

\* the vector source_->dataProducts(lane), in iteration order
dataProductsOf == [k \in 1 .. nSlots |-> k - 1]

\* SharedSourceBase::mayBeAbleToGoToEvent for a source bounded at M events
mayBeAbleToGoToEvent(i) == i < M

\* Lane::Lane making Waiters only for a scale factor above zero
waitersForPositiveScale == IF iScaleFactor > 0 THEN dataProducts ELSE {}

\* Lane::Lane: one Waiter per slot when the scale factor is not negative
waiters_ == IF iScaleFactor >= 0 THEN dataProducts ELSE {}

\* Lane::makeWaiterTask: the holder itself, or a task that waits and then releases it
\* (the task captures "index", the waiter it will use)
makeWaiterTask(i, holder) ==
  IF waiters_ = {} THEN holder ELSE <<<<"waiter", i>>>> \o holder

\* makeTaskForDataProduct that does not ask usesProductReadyAsync
makeTaskForDataProductAlways(l, i, iDP, holder) ==
  makeWaiterTask(i, <<<<"productReady", l, iDP>>>> \o holder)

\* makeTaskForDataProduct with the productReadyAsync task wrapped around the
\* waiter task
makeTaskForDataProductReadyFirst(l, i, iDP, holder) ==
  IF usesProductReadyAsync
  THEN <<<<"productReady", l, iDP>>>> \o makeWaiterTask(i, holder)
  ELSE makeWaiterTask(i, holder)

\* Lane::makeTaskForDataProduct of lane l (the productReadyAsync task captures
\* laneIndex and iDP)
makeTaskForDataProduct(l, i, iDP, holder) ==
  IF usesProductReadyAsync
  THEN makeWaiterTask(i, <<<<"productReady", l, iDP>>>> \o holder)
  ELSE makeWaiterTask(i, holder)

\* The outer TaskHolder of processEventAsync
outerHolder == <<<<"holder">>>>

\* TaskHolder release: the last release of the outer token runs its task (the
\* call of outputAsync); the release of a one-owner stage token runs that stage.
doneWaiting(tok, l, i, e, g) ==
  IF Head(tok)[1] = "holder"
  THEN /\ holderCount' = [holderCount EXCEPT ![e] = @ - 1]
       /\ holderReleases' = [holderReleases EXCEPT ![e] = @ + 1]
       /\ group' = IF holderCount[e] - 1 = 0
                   THEN g (+) One(Task("output", l, -1, e, <<>>))
                   ELSE g
  ELSE /\ group' = g (+) One(Task(Head(tok)[1], l, i, e, tok))
       /\ UNCHANGED <<holderCount, holderReleases>>

\* What slot i of lane l has been through: "what", and the release of the
\* slot's copy of the outer holder when that is what tok is
Log(l, i, what, tok) ==
  stages' = [stages EXCEPT ![l][i] =
               @ \o <<what>> \o (IF Head(tok)[1] = "holder" THEN <<<<"release">>>> ELSE <<>>)]

\* ---------------------------------------------------------------- Init
\* The state once every Lane is constructed and its first doNextEvent is queued
Start ==
  /\ index = 0
  /\ group = SetToBag({doNextEventTask(l) : l \in Lanes})
  /\ seeks = {}
  /\ laneEvent = [l \in Lanes |-> -1]
  /\ gets = {}
  /\ storage = [l \in Lanes |-> [i \in dataProducts |-> -1]]
  /\ waits = {}
  /\ frames = {}
  /\ holderCount = [e \in Events |-> 0]
  /\ holderReleases = [e \in Events |-> 0]
  /\ collateQueue_ = <<>>
  /\ queueRunning = -1
  /\ collating = {}
  /\ eventGlobalOffset_ = 0
  /\ id_ = -1
  /\ ntuple_ = <<>>
  /\ claimed = <<>>
  /\ seekFailures = {}
  /\ stages = [l \in Lanes |-> [i \in dataProducts |-> <<>>]]
  /\ outputLog = <<>>

\* The lane-0 branch of setupForLane: one field per slot, then "EventID"
newFields == [i \in 1 .. nSlots |-> name(i - 1)] \o <<EventID>>

\* setupForLane pushing the addresses from the last slot to the first
newPtrsReversed(l) == [i \in 1 .. nSlots |-> address(l, nSlots - i)]

\* The loop of setupForLane over iDPs: the addresses pushed, in order
newPtrs(l) == [i \in 1 .. nSlots |-> address(l, i - 1)]

\* The sink after setupForLane has returned for lane 0 and then for every
\* other lane
SetupComplete ==
  /\ ntupleCreated = TRUE
  /\ idMade = TRUE
  /\ fieldIDs_ = newFields
  /\ entries_ = [l \in Lanes |-> newPtrs(l)]
  /\ setupDone = Lanes
  /\ thrown = {}

Configs ==
  /\ nLanes \in 1 .. MaxLanes
  /\ M \in 0 .. MaxEvents
  /\ nSlots \in 0 .. MaxSlots
  /\ nLanes * nSlots <= MaxTotalSlots
  /\ iScaleFactor \in {-1, 0}
  /\ usesProductReadyAsync \in BOOLEAN

Init ==
  /\ Configs
  /\ SetupComplete
  /\ Start

\* RNTupleOutputer::RNTupleOutputer: entries_(iNLanes), nothing else made
SetupInit ==
  /\ Configs
  /\ ntupleCreated = FALSE
  /\ idMade = FALSE
  /\ fieldIDs_ = <<>>
  /\ entries_ = [l \in Lanes |-> <<>>]
  /\ setupDone = {}
  /\ thrown = {}
  /\ Start

\* ---------------------------------------------------------------- Lane
\* doNextEvent with "index.load()" then "index.store(v + 1)" in place of the
\* atomic index++: a lane may read the value another lane has just read
doNextEventLostUpdate(l) ==
  \E lost \in BOOLEAN :
    LET presentIndex == IF lost /\ index > 0 THEN index - 1 ELSE index IN
    /\ BagIn(doNextEventTask(l), group)
    /\ index' = presentIndex + 1
    /\ claimed' = Append(claimed, [lane |-> l, idx |-> presentIndex])
    /\ group' = group (-) One(doNextEventTask(l))
    /\ seeks' = IF mayBeAbleToGoToEvent(presentIndex)
                THEN seeks \cup {[lane |-> l, idx |-> presentIndex]}
                ELSE seeks
    /\ UNCHANGED <<config, seekFailures, stages, laneEvent, gets, storage, waits, frames, holderCount,
                   holderReleases, sinkVars>>

\* doNextEvent with ++index in place of index++
doNextEventPreIncrement(l) ==
  LET presentIndex == index + 1 IN
  /\ BagIn(doNextEventTask(l), group)
  /\ index' = index + 1
  /\ claimed' = Append(claimed, [lane |-> l, idx |-> presentIndex])
  /\ group' = group (-) One(doNextEventTask(l))
  /\ seeks' = IF mayBeAbleToGoToEvent(presentIndex)
              THEN seeks \cup {[lane |-> l, idx |-> presentIndex]}
              ELSE seeks
  /\ UNCHANGED <<config, seekFailures, stages, laneEvent, gets, storage, waits, frames, holderCount,
                 holderReleases, sinkVars>>

\* doNextEvent that waits until the source has no operation of any lane pending
doNextEventBlocking(l) ==
  LET presentIndex == index IN
  /\ BagIn(doNextEventTask(l), group)
  /\ seeks = {}
  /\ gets = {}
  /\ index' = index + 1
  /\ claimed' = Append(claimed, [lane |-> l, idx |-> presentIndex])
  /\ group' = group (-) One(doNextEventTask(l))
  /\ seeks' = IF mayBeAbleToGoToEvent(presentIndex)
              THEN seeks \cup {[lane |-> l, idx |-> presentIndex]}
              ELSE seeks
  /\ UNCHANGED <<config, seekFailures, stages, laneEvent, gets, storage, waits, frames, holderCount,
                 holderReleases, sinkVars>>

\* doNextEvent that claims again when the pre-check fails (at most nLanes times
\* past the end of the source)
doNextEventRetry(l) ==
  LET presentIndex == index IN
  /\ BagIn(doNextEventTask(l), group)
  /\ index' = index + 1
  /\ claimed' = Append(claimed, [lane |-> l, idx |-> presentIndex])
  /\ group' = IF mayBeAbleToGoToEvent(presentIndex) \/ presentIndex >= M + nLanes
              THEN group (-) One(doNextEventTask(l))
              ELSE group
  /\ seeks' = IF mayBeAbleToGoToEvent(presentIndex)
              THEN seeks \cup {[lane |-> l, idx |-> presentIndex]}
              ELSE seeks
  /\ UNCHANGED <<config, seekFailures, stages, laneEvent, gets, storage, waits, frames, holderCount,
                 holderReleases, sinkVars>>

\* doNextEvent that asks mayBeAbleToGoToEvent for the counter's value before it
\* increments the counter, and claims nothing when the answer is no
doNextEventPeek(l) ==
  LET presentIndex == index IN
  /\ BagIn(doNextEventTask(l), group)
  /\ group' = group (-) One(doNextEventTask(l))
  /\ IF mayBeAbleToGoToEvent(presentIndex)
     THEN /\ index' = index + 1
          /\ claimed' = Append(claimed, [lane |-> l, idx |-> presentIndex])
          /\ seeks' = seeks \cup {[lane |-> l, idx |-> presentIndex]}
     ELSE UNCHANGED <<index, claimed, seeks>>
  /\ UNCHANGED <<config, seekFailures, stages, laneEvent, gets, storage, waits, frames,
                 holderCount, holderReleases, sinkVars>>

\* Lane::doNextEvent: claim the next index; seek it when the source may hold it
doNextEvent(l) ==
  LET presentIndex == index IN
  /\ BagIn(doNextEventTask(l), group)
  /\ index' = index + 1
  /\ claimed' = Append(claimed, [lane |-> l, idx |-> presentIndex])
  /\ group' = group (-) One(doNextEventTask(l))
  /\ seeks' = IF mayBeAbleToGoToEvent(presentIndex)
              THEN seeks \cup {[lane |-> l, idx |-> presentIndex]}
              ELSE seeks
  /\ UNCHANGED <<config, seekFailures, stages, laneEvent, gets, storage, waits, frames, holderCount,
                 holderReleases, sinkVars>>

\* The source completes gotoEventAsync and runs the processEventTask it was given
gotoEventDone(l) ==
  \E s \in seeks :
    /\ s.lane = l
    /\ seeks' = seeks \ {s}
    /\ laneEvent' = [laneEvent EXCEPT ![l] = s.idx]
    /\ group' = group (+) One(Task("processEvent", l, -1, s.idx, <<>>))
    /\ UNCHANGED <<config, seekFailures, stages, index, gets, storage, waits, frames, holderCount,
                   holderReleases, claimed, sinkVars>>

\* The source cannot position the lane at the index: the processEventTask it
\* was given is dropped without being run
gotoEventFail(l) ==
  \E s \in seeks :
    /\ s.lane = l
    /\ seeks' = seeks \ {s}
    /\ seekFailures' = seekFailures \cup {s}
    /\ UNCHANGED <<config, stages, index, group, laneEvent, gets, storage, waits, frames,
                   holderCount, holderReleases, claimed, sinkVars>>

\* processEventAsync handing each getAsync a holder of its own in place of a copy
\* of the outer holder
processEventAsyncNoCopies(l, e, g) ==
  /\ holderCount' = [holderCount EXCEPT ![e] = 1]
  /\ holderReleases' = [holderReleases EXCEPT ![e] = 0]
  /\ gets' = gets \cup {[lane |-> l, slot |-> dataProductsOf[k + 1], index |-> k, ev |-> e,
                         tok |-> makeTaskForDataProduct(l, k, dataProductsOf[k + 1], outerHolder)] :
                        k \in 0 .. (nSlots - 1)}
  /\ frames' = frames \cup {[lane |-> l, ev |-> e]}
  /\ stages' = [stages EXCEPT ![l] = [i \in dataProducts |-> <<>>]]
  /\ group' = g

\* Lane::processEventAsync up to the end of its loop: the outer holder and one
\* copy of it per slot, each handed to that slot's getAsync
processEventAsync(l, e, g) ==
  /\ holderCount' = [holderCount EXCEPT ![e] = 1 + nSlots]
  /\ holderReleases' = [holderReleases EXCEPT ![e] = 0]
  /\ gets' = gets \cup {[lane |-> l, slot |-> dataProductsOf[k + 1], index |-> k, ev |-> e,
                         tok |-> makeTaskForDataProduct(l, k, dataProductsOf[k + 1], outerHolder)] :
                        k \in 0 .. (nSlots - 1)}
  /\ frames' = frames \cup {[lane |-> l, ev |-> e]}
  /\ stages' = [stages EXCEPT ![l] = [i \in dataProducts |-> <<>>]]
  /\ group' = g

\* The processEventTask of doNextEvent: build recursiveTask, call processEventAsync
processEventTask(l) ==
  \E t \in TasksOf("processEvent", l) :
    /\ processEventAsync(l, t.ev, group (-) One(t))
    /\ UNCHANGED <<config, seekFailures, index, seeks, laneEvent, storage, waits, claimed, sinkVars>>

\* processEventAsync keeping its own holder alive (stored, never released)
processEventReturnNoRelease(l) ==
  \E f \in frames :
    /\ f.lane = l
    /\ frames' = frames \ {f}
    /\ UNCHANGED <<config, seekFailures, stages, index, seeks, laneEvent, gets, storage, waits, claimed,
                   sinkVars, group, holderCount, holderReleases>>

\* processEventAsync returns: its own holder goes out of scope (the base release)
processEventReturn(l) ==
  \E f \in frames :
    /\ f.lane = l
    /\ frames' = frames \ {f}
    /\ doneWaiting(outerHolder, l, -1, f.ev, group)
    /\ UNCHANGED <<config, seekFailures, stages, index, seeks, laneEvent, gets, storage, waits, claimed,
                   sinkVars>>

\* The source completes a slot's getAsync: the slot holds the lane's event and
\* the token given to getAsync is released
getAsyncDone(l) ==
  \E g \in gets :
    /\ g.lane = l
    /\ gets' = gets \ {g}
    /\ storage' = [storage EXCEPT ![l][g.slot] = laneEvent[l]]
    /\ doneWaiting(g.tok, l, g.slot, g.ev, group)
    /\ Log(l, g.slot, <<"getAsync", g.slot>>, g.tok)
    /\ UNCHANGED <<config, seekFailures, index, seeks, laneEvent, waits, frames, claimed, sinkVars>>

\* The functor task of makeWaiterTask: waiters_[index].waitAsync(products, holder)
waiterTask(l) ==
  \E t \in TasksOf("waiter", l) :
    /\ group' = group (-) One(t)
    /\ waits' = waits \cup {[lane |-> l, slot |-> t.slot, waiter |-> Head(t.tok)[2],
                               ev |-> t.ev, tok |-> Tail(t.tok)]}
    /\ Log(l, t.slot, <<"waitAsync", Head(t.tok)[2]>>, t.tok)
    /\ UNCHANGED <<config, seekFailures, index, seeks, laneEvent, gets, storage, frames, holderCount,
                   holderReleases, claimed, sinkVars>>

\* The Waiter's delay elapses and it releases the holder it was given
waitDone(l) ==
  \E w \in waits :
    /\ w.lane = l
    /\ waits' = waits \ {w}
    /\ doneWaiting(w.tok, l, w.slot, w.ev, group)
    /\ Log(l, w.slot, <<"waited", w.waiter>>, w.tok)
    /\ UNCHANGED <<config, seekFailures, index, seeks, laneEvent, gets, storage, frames, claimed,
                   sinkVars>>

\* The functor task of makeTaskForDataProduct: productReadyAsync, whose body is
\* empty, so the holder it was given is released on return
productReadyTask(l) ==
  \E t \in TasksOf("productReady", l) :
    /\ doneWaiting(Tail(t.tok), l, t.slot, t.ev, group (-) One(t))
    /\ Log(l, t.slot, <<"productReadyAsync", Head(t.tok)[2], Head(t.tok)[3]>>, Tail(t.tok))
    /\ UNCHANGED <<config, seekFailures, index, seeks, laneEvent, gets, storage, waits, frames,
                   claimed, sinkVars>>

\* ---------------------------------------------------------------- sink
\* The loop of collateProducts: BindRawPtr(fieldIDs_[i], *entry.ptrs[i]) for
\* every position of the lane's ptrs (positions counted from 1 here)
BindRawPtrs(l) ==
  [i \in 1 .. Len(entries_[l]) |->
     [field |-> IF i <= Len(fieldIDs_) THEN fieldIDs_[i] ELSE <<"no field", i>>,
      ptr |-> entries_[l][i]]]

\* RNTupleWriter::Fill of the entry bound by execution c: each bound field reads
\* the object its pointer refers to; "EventID" reads id_
Fill(c) ==
  [offset |-> c.offset, lane |-> c.lane,
   id |-> IF idMade THEN id_ ELSE -1,
   fields |-> [i \in DOMAIN c.bound |-> c.bound[i].field],
   data |-> [i \in 0 .. (Len(c.bound) - 1) |->
               storage[c.bound[i + 1].ptr[1]][c.bound[i + 1].ptr[2]]]]

\* collateProducts releasing iCallback on entry, before the entry is filled
collateProductsEarlyRelease(op, g) ==
  LET thisOffset == eventGlobalOffset_ IN
  /\ eventGlobalOffset_' = eventGlobalOffset_ + 1
  /\ id_' = IF idMade THEN op.id ELSE id_
  /\ collating' = collating \cup
       {[lane |-> op.lane, id |-> op.id, cb |-> FALSE, offset |-> thisOffset,
         bound |-> BindRawPtrs(op.lane)]}
  /\ group' = IF op.cb THEN g (+) One(doNextEventTask(op.lane)) ELSE g

\* collateProducts reading eventGlobalOffset_ without incrementing it
collateProductsNoIncrement(op, g) ==
  LET thisOffset == eventGlobalOffset_ IN
  /\ eventGlobalOffset_' = eventGlobalOffset_
  /\ id_' = IF idMade THEN op.id ELSE id_
  /\ collating' = collating \cup
       {[lane |-> op.lane, id |-> op.id, cb |-> op.cb, offset |-> thisOffset,
         bound |-> BindRawPtrs(op.lane)]}
  /\ group' = g

\* RNTupleOutputer::collateProducts up to the Fill: take the offset, bind the
\* lane's pointers, store the event id in the shared id_
collateProducts(op, g) ==
  LET thisOffset == eventGlobalOffset_ IN
  /\ eventGlobalOffset_' = eventGlobalOffset_ + 1
  /\ id_' = IF idMade THEN op.id ELSE id_
  /\ collating' = collating \cup
       {[lane |-> op.lane, id |-> op.id, cb |-> op.cb, offset |-> thisOffset,
         bound |-> BindRawPtrs(op.lane)]}
  /\ group' = g

\* collateProducts keeping iCallback alive (stored, never released)
collateProductsReturnLeak(c) ==
  /\ collating' = collating \ {c}
  /\ ntuple_' = Append(ntuple_, Fill(c))
  /\ group' = group

\* RNTupleOutputer::collateProducts from the Fill to its return: the entry is
\* written from the lane's storage and id_, and iCallback goes out of scope,
\* which runs the lane's recursiveTask
collateProductsReturn(c) ==
  /\ collating' = collating \ {c}
  /\ ntuple_' = Append(ntuple_, Fill(c))
  /\ group' = IF c.cb THEN group (+) One(doNextEventTask(c.lane)) ELSE group

\* outputAsync calling collateProducts itself in place of pushing it on collateQueue_
outputAsyncDirect(l, iEventID, g) ==
  /\ outputLog' = Append(outputLog, [lane |-> l, id |-> iEventID])
  /\ collateProducts([lane |-> l, id |-> iEventID, cb |-> TRUE], g)
  /\ UNCHANGED <<collateQueue_, queueRunning, ntuple_>>

\* outputAsync copying the callback into the pushed operation's closure only by
\* reference: the callback is released when outputAsync returns
outputAsyncEarlyCallback(l, iEventID, g) ==
  /\ collateQueue_' = Append(collateQueue_, [lane |-> l, id |-> iEventID, cb |-> FALSE])
  /\ outputLog' = Append(outputLog, [lane |-> l, id |-> iEventID])
  /\ group' = g (+) One(doNextEventTask(l))
  /\ UNCHANGED <<queueRunning, collating, eventGlobalOffset_, id_, ntuple_>>

\* RNTupleOutputer::outputAsync: push collateProducts, with the callback moved
\* into it, on collateQueue_
outputAsync(l, iEventID, g) ==
  /\ collateQueue_' = Append(collateQueue_, [lane |-> l, id |-> iEventID, cb |-> TRUE])
  /\ outputLog' = Append(outputLog, [lane |-> l, id |-> iEventID])
  /\ group' = g
  /\ UNCHANGED <<queueRunning, collating, eventGlobalOffset_, id_, ntuple_>>

\* The task of the outer holder in processEventAsync:
\* outputer.outputAsync(index_, source_->eventIdentifier(index_), callback)
outputTask(l) ==
  \E t \in TasksOf("output", l) :
    /\ outputAsync(l, laneEvent[l], group (-) One(t))
    /\ UNCHANGED <<config, seekFailures, stages, index, seeks, laneEvent, gets, storage, waits, frames,
                   holderCount, holderReleases, claimed>>

\* The serial queue starts its head operation when it is running none
collateBegin ==
  /\ collateQueue_ # <<>>
  /\ queueRunning = -1
  /\ collateQueue_' = Tail(collateQueue_)
  /\ queueRunning' = eventGlobalOffset_
  /\ collateProducts(Head(collateQueue_), group)
  /\ UNCHANGED <<config, seekFailures, stages, index, seeks, laneEvent, gets, storage, waits, frames,
                 holderCount, holderReleases, claimed, ntuple_, outputLog>>

\* A running operation returns; the serial queue is free again when it was the
\* one the queue had started
collateEnd ==
  \E c \in collating :
    /\ collateProductsReturn(c)
    /\ queueRunning' = IF queueRunning = c.offset THEN -1 ELSE queueRunning
    /\ UNCHANGED <<config, seekFailures, stages, index, seeks, laneEvent, gets, storage, waits, frames,
                   holderCount, holderReleases, claimed, collateQueue_,
                   eventGlobalOffset_, id_, outputLog>>

\* setupForLane that binds the lane's pointers whether or not the writer exists
setupForLaneUnchecked(l) ==
  /\ l \notin setupDone
  /\ IF l = 0
     THEN /\ fieldIDs_' = fieldIDs_ \o newFields
          /\ idMade' = TRUE
          /\ ntupleCreated' = TRUE
     ELSE UNCHANGED <<fieldIDs_, idMade, ntupleCreated>>
  /\ entries_' = [entries_ EXCEPT ![l] = @ \o newPtrs(l)]
  /\ setupDone' = setupDone \cup {l}
  /\ UNCHANGED <<thrown, nLanes, M, nSlots, iScaleFactor, usesProductReadyAsync,
                 laneVars, sinkVars>>

\* RNTupleOutputer::setupForLane, called for a lane it has not returned for:
\* lane 0 registers the fields, makes id_ and creates the writer; another lane
\* throws when the writer does not exist; then the lane's addresses are pushed
setupForLane(l) ==
  /\ l \notin setupDone
  /\ IF l = 0
     THEN /\ fieldIDs_' = fieldIDs_ \o newFields
          /\ idMade' = TRUE
          /\ ntupleCreated' = TRUE
          /\ entries_' = [entries_ EXCEPT ![l] = @ \o newPtrs(l)]
          /\ setupDone' = setupDone \cup {l}
          /\ UNCHANGED thrown
     ELSE IF ~ntupleCreated
     THEN /\ thrown' = thrown \cup {l}
          /\ UNCHANGED <<fieldIDs_, idMade, ntupleCreated, entries_, setupDone>>
     ELSE /\ entries_' = [entries_ EXCEPT ![l] = @ \o newPtrs(l)]
          /\ setupDone' = setupDone \cup {l}
          /\ UNCHANGED <<fieldIDs_, idMade, ntupleCreated, thrown>>
  /\ UNCHANGED <<nLanes, M, nSlots, iScaleFactor, usesProductReadyAsync,
                 laneVars, sinkVars>>

\* ---------------------------------------------------------------- specification
Next ==
  \/ \E l \in Lanes : doNextEvent(l)
  \/ \E l \in Lanes : gotoEventDone(l)
  \/ \E l \in Lanes : processEventTask(l)
  \/ \E l \in Lanes : processEventReturn(l)
  \/ \E l \in Lanes : getAsyncDone(l)
  \/ \E l \in Lanes : waiterTask(l)
  \/ \E l \in Lanes : waitDone(l)
  \/ \E l \in Lanes : productReadyTask(l)
  \/ \E l \in Lanes : outputTask(l)
  \/ collateBegin
  \/ collateEnd

Spec == Init /\ [][Next]_vars

\* The run from the construction of the sink: setupForLane is called for the
\* lanes in any order, again for a lane whose call threw, and the lanes run
\* once it has returned for every lane
SetupNext ==
  \/ \E l \in Lanes : setupForLane(l)
  \/ (setupDone = Lanes /\ Next)

SetupSpec == SetupInit /\ [][SetupNext]_vars

\* As Spec, with a source that may fail to position a lane
FailNext == Next \/ \E l \in Lanes : gotoEventFail(l)

FailSpec == Init /\ [][FailNext]_vars

\* FailSpec where every task is run and every operation completes or fails
FailLiveSpec == Init /\ [][FailNext]_vars /\ WF_vars(Next)

\* The scenario of two lanes on a source of six events, no Waiter, a sink that
\* does not use productReadyAsync
ScenarioInit ==
  /\ nLanes = 2
  /\ M = 6
  /\ nSlots \in {0, 1}
  /\ iScaleFactor = -1
  /\ usesProductReadyAsync = FALSE
  /\ SetupComplete
  /\ Start

LiveInit == Init \/ ScenarioInit

\* Every task in the group is run, every source and waiter operation completes,
\* the serial queue runs what it holds
LiveSpec == LiveInit /\ [][Next]_vars /\ WF_vars(Next)

\* The completions the source owes lane l
SourceStep(l) == gotoEventDone(l) \/ getAsyncDone(l)

\* Every step but a source completion
OtherSteps ==
  \/ \E l \in Lanes : doNextEvent(l)
  \/ \E l \in Lanes : processEventTask(l)
  \/ \E l \in Lanes : processEventReturn(l)
  \/ \E l \in Lanes : waiterTask(l)
  \/ \E l \in Lanes : waitDone(l)
  \/ \E l \in Lanes : productReadyTask(l)
  \/ \E l \in Lanes : outputTask(l)
  \/ collateBegin
  \/ collateEnd

\* As LiveSpec, but the source owes lane 0 nothing: its gotoEventAsync or
\* getAsync may never invoke the continuation
StallSpec ==
  Init /\ [][Next]_vars
       /\ WF_vars(OtherSteps \/ \E l \in Lanes \ {0} : SourceStep(l))

\* ---------------------------------------------------------------- observations
\* Lane l has something left to run: a task, a source or waiter operation, a
\* frame, or an output operation queued or running
LaneBusy(l) ==
  \/ \E t \in BagToSet(group) : t.lane = l
  \/ \E s \in seeks : s.lane = l
  \/ \E g \in gets : g.lane = l
  \/ \E w \in waits : w.lane = l
  \/ \E f \in frames : f.lane = l
  \/ \E k \in DOMAIN collateQueue_ : collateQueue_[k].lane = l
  \/ \E c \in collating : c.lane = l

Terminated(l) == ~LaneBusy(l)

Quiescent == \A l \in Lanes : Terminated(l)

\* The events of lane l whose outputAsync has been triggered or called and whose
\* collateProducts has not returned
OutputInFlight(l) ==
  {t.ev : t \in TasksOf("output", l)}
    \cup {collateQueue_[k].id : k \in {j \in DOMAIN collateQueue_ : collateQueue_[j].lane = l}}
    \cup {c.id : c \in {d \in collating : d.lane = l}}

ClaimedIdx == {claimed[k].idx : k \in DOMAIN claimed}

ClaimsOf(l) == {claimed[k].idx : k \in {j \in DOMAIN claimed : claimed[j].lane = l}}

FilledIds == {ntuple_[k].id : k \in DOMAIN ntuple_}

\* How many times the outer holder of event e has run its task: the output tasks
\* still in the group and the outputAsync calls made
OutputFires(e) ==
  Cardinality({t \in BagToSet(group) : t.kind = "output" /\ t.ev = e})
    + Cardinality({k \in DOMAIN outputLog : outputLog[k].id = e})

\* The indices lane l claimed that stop it: the pre-check fails for them, or the
\* source failed to position the lane at them
StopIdx(l) ==
  {i \in ClaimsOf(l) : ~mayBeAbleToGoToEvent(i)} \cup {s.idx : s \in {t \in seekFailures : t.lane = l}}

OutputsOf(l) == {outputLog[k].id : k \in {j \in DOMAIN outputLog : outputLog[j].lane = l}}

SeeksOf(l) == {s.idx : s \in {t \in seeks : t.lane = l}}

\* How many times stage nm is in the record of slot i of lane l
StageCount(l, i, nm) ==
  Cardinality({k \in DOMAIN stages[l][i] : stages[l][i][k][1] = nm})

\* Lane l has an event whose slots are all done: its output is in flight or made
Processed(l) == OutputInFlight(l) # {} \/ laneEvent[l] \in OutputsOf(l)

\* The stages of slot i of lane l, in the order of makeTaskForDataProduct
ExpectedStages(l, i) ==
  <<<<"getAsync", i>>>>
    \o (IF iScaleFactor >= 0 THEN <<<<"waitAsync", i>>, <<"waited", i>>>> ELSE <<>>)
    \o (IF usesProductReadyAsync THEN <<<<"productReadyAsync", l, i>>>> ELSE <<>>)
    \o <<<<"release">>>>

\* The indices lane l claimed and sought whose collateProducts has not returned
InFlight(l) == {i \in ClaimsOf(l) : mayBeAbleToGoToEvent(i) /\ i \notin FilledIds}

\* The operations of lane l that collateQueue_ holds or is running
QueuedOf(l) ==
  Cardinality({k \in DOMAIN collateQueue_ : collateQueue_[k].lane = l})
    + Cardinality({c \in collating : c.lane = l})

\* ---------------------------------------------------------------- claims
\* C1: every index++ returns a value no other index++ returned, so no two lanes
\* seek the same index or have their retrievers positioned at the same event.
C1_UniqueClaim ==
  /\ \A j, k \in DOMAIN claimed : j # k => claimed[j].idx # claimed[k].idx
  /\ \A s, t \in seeks : s.idx = t.idx => s = t
  /\ \A l, m \in Lanes : (l # m /\ laneEvent[l] >= 0) => laneEvent[l] # laneEvent[m]

C1_Witness ==
  /\ \A l \in Lanes : laneEvent[l] >= 0
  /\ nLanes >= 2
  /\ Len(claimed) >= 3

\* C2: for every event and every fan-out width K = nSlots, the outer holder runs
\* its task (the call of outputAsync) at most once, it has run exactly when K+1
\* releases of the holder have happened, never more than K+1 happen, every task
\* in the group is there once, and when the run is over it has run exactly once
\* for every event of the source.
C2_JoinOnce ==
  /\ \A t \in BagToSet(group) : CopiesIn(t, group) = 1
  /\ \A e \in Events :
       /\ OutputFires(e) <= 1
       /\ holderReleases[e] <= nSlots + 1
       /\ (OutputFires(e) = 1) <=> (holderReleases[e] = nSlots + 1)
       /\ Quiescent => OutputFires(e) = 1

C2_Witness ==
  /\ nSlots >= 2
  /\ \E e \in Events :
       /\ holderReleases[e] = nSlots + 1
       /\ \E k \in DOMAIN outputLog : outputLog[k].id = e
  /\ \E e \in Events : \E f \in frames :
       f.ev = e /\ holderReleases[e] = nSlots   \* every slot released before the base

\* C3: at most one collateProducts runs at any instant, and it is the one the
\* serial queue started.
C3_OneCollate ==
  /\ Cardinality(collating) <= 1
  /\ \A c \in collating : queueRunning = c.offset
  /\ (collating = {}) => queueRunning = -1

C3_Witness ==
  /\ Cardinality(collating) = 1
  /\ collateQueue_ # <<>>

\* C4: while an output of lane l is in flight (from the firing of the event's
\* join to the return of its collateProducts) the source has no gotoEventAsync
\* and no getAsync of lane l pending, every slot of the lane holds that event,
\* and so every entry filled holds the data of the event it is filed under.
C4_NoRefillDuringOutput ==
  /\ \A l \in Lanes : \A e \in OutputInFlight(l) :
       /\ ~ \E s \in seeks : s.lane = l
       /\ ~ \E g \in gets : g.lane = l
       /\ ~ \E w \in waits : w.lane = l
       /\ laneEvent[l] = e
       /\ \A i \in dataProducts : storage[l][i] = e
  /\ \A k \in DOMAIN ntuple_ : \A i \in dataProducts :
       ntuple_[k].data[i] = ntuple_[k].id

\* a lane whose storage was already written into an entry is being collated again
C4_Witness ==
  /\ nSlots >= 1
  /\ \E c \in collating : \E k \in DOMAIN ntuple_ :
       ntuple_[k].lane = c.lane /\ ntuple_[k].id # c.id

\* C5 as stated: when every lane has terminated the indices claimed from the
\* counter are exactly 0 .. M-1, each once.
C5_ClaimedExactlySource ==
  Quiescent =>
    /\ \A j, k \in DOMAIN claimed : j # k => claimed[j].idx # claimed[k].idx
    /\ ClaimedIdx = 0 .. (M - 1)

\* C5 amended: when every lane has terminated the indices claimed are exactly
\* 0 .. M+N-1, each once; those below M, and no others, were sought and filled,
\* each once; every lane's last claim is one of the N failing ones.
C5_ClaimedAndSought ==
  Quiescent =>
    /\ \A j, k \in DOMAIN claimed : j # k => claimed[j].idx # claimed[k].idx
    /\ ClaimedIdx = 0 .. (M + nLanes - 1)
    /\ FilledIds = 0 .. (M - 1)
    /\ Len(ntuple_) = M
    /\ \A l \in Lanes : Cardinality({i \in ClaimsOf(l) : i >= M}) = 1

C5_Witness ==
  /\ Quiescent
  /\ nLanes >= 2
  /\ M >= 2
  /\ \A l \in Lanes : Cardinality(ClaimsOf(l)) >= 2

\* C6: under LiveSpec the run reaches, and stays in, a state where every lane
\* has terminated and outputAsync and collateProducts have each run exactly
\* once for every index of 0 .. M-1; at no time is outputAsync called for
\* another index or twice for one.  With nLanes = 2 and M = 6 these are six
\* calls, for 0 .. 5, each by one of the two lanes.
AllOutputOnce ==
  /\ Quiescent
  /\ Len(outputLog) = M
  /\ {outputLog[k].id : k \in DOMAIN outputLog} = 0 .. (M - 1)
  /\ Len(ntuple_) = M
  /\ FilledIds = 0 .. (M - 1)

OutputsDistinct ==
  /\ \A j, k \in DOMAIN outputLog : j # k => outputLog[j].id # outputLog[k].id
  /\ \A k \in DOMAIN outputLog : outputLog[k].id \in 0 .. (M - 1) /\ outputLog[k].lane \in Lanes

C6_EventuallyAllOutput == <>[]AllOutputOnce /\ []OutputsDistinct

C6_Witness ==
  /\ nLanes = 2 /\ M = 6 /\ iScaleFactor < 0 /\ ~usesProductReadyAsync
  /\ Quiescent
  /\ Len(outputLog) = 6
  /\ \A l \in Lanes : \E k \in DOMAIN outputLog : outputLog[k].lane = l

\* C7 as stated: the recursive claim is triggered in parallel with the output
\* step, so whenever an output of a lane is in flight the lane's recursiveTask
\* is already in the group or the lane has already claimed a later index.
C7_ClaimParallelToOutput ==
  \A l \in Lanes : \A e \in OutputInFlight(l) :
    \/ BagIn(doNextEventTask(l), group)
    \/ \E i \in ClaimsOf(l) : i > e

\* C7 amended: while an output of a lane is in flight the lane's recursiveTask
\* has not run and is not in the group, and the lane has claimed no index after
\* that event's; the next claim follows the return of collateProducts.
C7_ClaimAfterOutput ==
  \A l \in Lanes : \A e \in OutputInFlight(l) :
    /\ ~BagIn(doNextEventTask(l), group)
    /\ \A i \in ClaimsOf(l) : i <= e

C7_Witness ==
  \E l \in Lanes :
    /\ laneEvent[l] >= 0
    /\ OutputInFlight(l) = {}
    /\ laneEvent[l] \in FilledIds
    /\ \E i \in ClaimsOf(l) : i > laneEvent[l]

\* C8: entries are filled in the order of the outputAsync calls, whatever the
\* event indices; the witness is a run that fills a higher index first.
C8_FillOrderIsCallOrder ==
  /\ Len(ntuple_) <= Len(outputLog)
  /\ \A k \in DOMAIN ntuple_ :
       ntuple_[k].id = outputLog[k].id /\ ntuple_[k].lane = outputLog[k].lane

C8_Witness ==
  \E j, k \in DOMAIN ntuple_ : j < k /\ ntuple_[j].id > ntuple_[k].id

\* C9: with no data-product slot the outer holder is released once, by the
\* return of processEventAsync, and that release runs the outputAsync task;
\* under LiveSpec every event the lane starts to process is then filled and the
\* lane's recursiveTask is put in the group.
ZeroSlotJoin ==
  nSlots = 0 =>
    \A e \in Events :
      /\ holderReleases[e] <= 1
      /\ (OutputFires(e) = 1) <=> (holderReleases[e] = 1 /\ holderCount[e] = 0)
      /\ OutputFires(e) <= 1

ZeroSlotStarted(l) == nSlots = 0 /\ l \in Lanes /\ TasksOf("processEvent", l) # {}

ZeroSlotDone(l) ==
  /\ l \in Lanes
  /\ BagIn(doNextEventTask(l), group)
  /\ laneEvent[l] \in FilledIds
  /\ OutputFires(laneEvent[l]) = 1

C9_ZeroSlotsComplete ==
  /\ []ZeroSlotJoin
  /\ \A l \in 0 .. (MaxLanes - 1) : ZeroSlotStarted(l) ~> ZeroSlotDone(l)

C9_Witness ==
  /\ nSlots = 0
  /\ \E l \in Lanes :
       /\ laneEvent[l] >= 1
       /\ ZeroSlotDone(l)
       /\ holderReleases[laneEvent[l]] = 1

\* C10: under StallSpec, where the source may never complete an operation of
\* lane 0, every other lane terminates, the counter passes every index the
\* other lanes can reach, and every index below M that another lane claimed is
\* filled.
OthersDone ==
  /\ \A l \in Lanes \ {0} : Terminated(l)
  /\ nLanes >= 2 => index >= M + nLanes - 1
  /\ \A k \in DOMAIN claimed :
       (claimed[k].lane # 0 /\ claimed[k].idx < M) => claimed[k].idx \in FilledIds

C10_StallIsLocal == <>[]OthersDone

C10_Witness ==
  /\ nLanes >= 2
  /\ \/ \E s \in seeks : s.lane = 0
     \/ \E g \in gets : g.lane = 0
  /\ OthersDone
  /\ \E k \in DOMAIN ntuple_ : ntuple_[k].lane # 0

\* C11: once a lane has claimed an index that fails the pre-check, or one the
\* source failed to position it at, the lane has nothing left to run, that
\* claim is its last, the index is never output, and no later step changes the
\* lane's claims, seeks or outputs; the other lanes go on: every lane
\* terminates, and every claimed index below M whose seek did not fail is filled.
StoppedIsTerminated ==
  \A l \in Lanes : \A i \in StopIdx(l) :
    /\ Terminated(l)
    /\ \A j \in ClaimsOf(l) : j <= i
    /\ i \notin OutputsOf(l)
    /\ i \notin FilledIds

StoppedStays ==
  \A l \in Lanes :
    StopIdx(l) # {} =>
      /\ ClaimsOf(l)' = ClaimsOf(l)
      /\ SeeksOf(l)' = SeeksOf(l)
      /\ OutputsOf(l)' = OutputsOf(l)

AllFinished ==
  /\ Quiescent
  /\ \A l \in Lanes : StopIdx(l) # {}
  /\ \A i \in ClaimedIdx :
       (i < M /\ i \notin {s.idx : s \in seekFailures}) => i \in FilledIds

C11_HardStop == []StoppedIsTerminated /\ [][StoppedStays]_vars /\ <>[]AllFinished

\* a lane stopped by a failed seek, and another lane filled a later index
C11_Witness ==
  \E s \in seekFailures : \E k \in DOMAIN ntuple_ :
    /\ ntuple_[k].lane # s.lane
    /\ ntuple_[k].id > s.idx
    /\ Terminated(s.lane)

\* C12: setupForLane for a lane other than 0 while the writer does not exist
\* throws and changes nothing of the sink but the record of the throw: no
\* pointer of a lane is bound before the writer exists; once the writer exists
\* no call throws, and a call for another lane appends that lane's addresses
\* to its own ptrs and changes nothing else.
NothingBoundBeforeWriter ==
  /\ 0 \notin thrown
  /\ \A l \in Lanes : l \notin setupDone => entries_[l] = <<>>
  /\ ~ntupleCreated => (setupDone = {} /\ fieldIDs_ = <<>> /\ ~idMade)

SetupStepOfOtherLane ==
  \A l \in Lanes \ {0} :
    /\ (l \in thrown' /\ l \notin thrown) =>
         /\ ~ntupleCreated
         /\ UNCHANGED <<entries_, fieldIDs_, ntupleCreated, idMade, setupDone, sinkVars>>
    /\ (l \in setupDone' /\ l \notin setupDone) =>
         /\ ntupleCreated
         /\ entries_' = [entries_ EXCEPT ![l] = newPtrs(l)]
         /\ UNCHANGED <<fieldIDs_, ntupleCreated, idMade, thrown, sinkVars>>
    /\ ntupleCreated => thrown' = thrown

C12_SetupOrder == []NothingBoundBeforeWriter /\ [][SetupStepOfOtherLane]_vars

\* a lane whose first call threw and whose call after lane 0's bound its slots
C12_Witness ==
  /\ nSlots >= 1
  /\ \E l \in thrown : l \in setupDone /\ entries_[l] = newPtrs(l) /\ entries_[l] # entries_[0]

\* C13: when usesProductReadyAsync is false no productReadyAsync call is made
\* and no task that would make one exists; when it is true, productReadyAsync
\* is called at most once per slot per event, exactly once by the time the
\* event's output is triggered, and with the lane's index and the slot's
\* retriever.
C13_ProductReadyOnlyWhenUsed ==
  \A l \in Lanes : \A i \in dataProducts :
    LET n == StageCount(l, i, "productReadyAsync") IN
    /\ ~usesProductReadyAsync =>
         /\ n = 0
         /\ TasksOf("productReady", l) = {}
    /\ usesProductReadyAsync =>
         /\ n <= 1
         /\ Processed(l) => n = 1
         /\ \A k \in DOMAIN stages[l][i] :
              stages[l][i][k][1] = "productReadyAsync" =>
                stages[l][i][k] = <<"productReadyAsync", l, i>>

C13_Witness ==
  /\ usesProductReadyAsync
  /\ nSlots >= 2
  /\ \E l \in Lanes :
       /\ laneEvent[l] >= 1
       /\ OutputInFlight(l) # {}
       /\ \A i \in dataProducts : StageCount(l, i, "productReadyAsync") = 1

\* C14: with a negative scale factor there is no Waiter, waitAsync is never
\* called and the token given to getAsync is the downstream token itself; with
\* a scale factor of zero or more there is one Waiter per slot and waitAsync is
\* called at most once per slot per event, exactly once by the time the event's
\* output is triggered, on the slot's own Waiter.
C14_WaiterOnlyWhenScaled ==
  /\ iScaleFactor < 0 =>
       /\ waiters_ = {}
       /\ waits = {}
       /\ \A l \in Lanes :
            /\ TasksOf("waiter", l) = {}
            /\ \A i \in dataProducts : StageCount(l, i, "waitAsync") = 0
       /\ \A g \in gets :
            g.tok = IF usesProductReadyAsync
                    THEN <<<<"productReady", g.lane, g.slot>>>> \o outerHolder
                    ELSE outerHolder
  /\ iScaleFactor >= 0 =>
       /\ waiters_ = dataProducts
       /\ \A w \in waits : w.waiter = w.slot /\ w.waiter \in waiters_
       /\ \A l \in Lanes : \A i \in dataProducts :
            /\ StageCount(l, i, "waitAsync") <= 1
            /\ Processed(l) => StageCount(l, i, "waitAsync") = 1

C14_Witness ==
  /\ iScaleFactor = 0
  /\ nSlots >= 2
  /\ \E l \in Lanes :
       /\ Processed(l)
       /\ laneEvent[l] >= 1
       /\ \A i \in dataProducts : StageCount(l, i, "waited") = 1

\* C15: what happens to a slot for one event happens in the order getAsync
\* fill, Waiter (when there is one), productReadyAsync (when used), release of
\* the slot's copy of the outer holder; the event's outputAsync is triggered
\* only when every slot of the lane has been through all of it.
C15_StageOrder ==
  \A l \in Lanes :
    /\ \A i \in dataProducts :
         /\ Len(stages[l][i]) <= Len(ExpectedStages(l, i))
         /\ stages[l][i] = SubSeq(ExpectedStages(l, i), 1, Len(stages[l][i]))
    /\ Processed(l) =>
         \A i \in dataProducts : stages[l][i] = ExpectedStages(l, i)

\* one slot through Waiter and productReadyAsync while another has not been filled
C15_Witness ==
  /\ usesProductReadyAsync
  /\ iScaleFactor >= 0
  /\ \E l \in Lanes : \E i, j \in dataProducts :
       /\ stages[l][i] = ExpectedStages(l, i)
       /\ Len(stages[l][i]) = 5
       /\ stages[l][j] = <<>>
       /\ laneEvent[l] >= 1

\* C16: every execution of collateProducts takes the value of
\* eventGlobalOffset_ and leaves it one higher: the k-th entry filled has
\* offset k-1, the counter is the number of executions begun, and a running
\* execution holds the next offset to be filled, whatever the event it writes.
C16_OffsetGapFree ==
  /\ \A k \in DOMAIN ntuple_ : ntuple_[k].offset = k - 1
  /\ eventGlobalOffset_ = Len(ntuple_) + Cardinality(collating)
  /\ \A c \in collating : c.offset = Len(ntuple_)

\* an entry whose offset is not the index of its event
C16_Witness ==
  /\ Len(ntuple_) >= 2
  /\ \E k \in DOMAIN ntuple_ : ntuple_[k].offset # ntuple_[k].id
  /\ \E j, k \in DOMAIN ntuple_ : ntuple_[j].lane # ntuple_[k].lane

\* C17: getAsync of the slot at position k is given the task made for index k;
\* setupForLane binds a lane's addresses in slot order; collateProducts binds
\* the lane's pointer at position i to the field registered at position i by
\* lane 0, and i is always within fieldIDs_.
C17_SlotOrderKept ==
  /\ \A g \in gets :
       /\ g.index = g.slot
       /\ g.tok = makeTaskForDataProduct(g.lane, g.slot, g.slot, outerHolder)
       /\ iScaleFactor >= 0 => Head(g.tok) = <<"waiter", g.slot>>
  /\ \A l \in setupDone :
       /\ Len(entries_[l]) = nSlots
       /\ Len(entries_[l]) <= Len(fieldIDs_)
       /\ \A i \in 1 .. nSlots : entries_[l][i] = address(l, i - 1)
  /\ \A c \in collating : \A i \in DOMAIN c.bound :
       /\ i <= Len(fieldIDs_)
       /\ c.bound[i].field = fieldIDs_[i]
       /\ c.bound[i].field = name(i - 1)
       /\ c.bound[i].ptr = address(c.lane, i - 1)
  /\ \A k \in DOMAIN ntuple_ :
       /\ ntuple_[k].fields = [i \in 1 .. nSlots |-> name(i - 1)]
       /\ \A i \in dataProducts : ntuple_[k].data[i] = ntuple_[k].id

\* two slots bound by setupForLane, written to an entry and bound again
C17_Witness ==
  /\ nSlots >= 2
  /\ setupDone = Lanes
  /\ \E k \in DOMAIN ntuple_ : Len(ntuple_[k].fields) = 2
  /\ \E c \in collating : Len(c.bound) = 2 /\ c.bound[2].ptr = entries_[c.lane][2]

\* C18: a lane has at most one index that it claimed and sought and whose
\* collateProducts has not returned; collateQueue_ holds or runs at most one
\* operation of a lane, and at most nLanes operations in all.
C18_OneEventInFlight ==
  /\ \A l \in Lanes :
       /\ Cardinality(InFlight(l)) <= 1
       /\ QueuedOf(l) <= 1
       /\ Cardinality(OutputInFlight(l)) <= 1
  /\ Len(collateQueue_) + Cardinality(collating) <= nLanes

\* every lane has an operation in the queue: one running, one pending
C18_Witness ==
  /\ nLanes >= 2
  /\ \A l \in Lanes : QueuedOf(l) = 1 /\ Cardinality(InFlight(l)) = 1
  /\ Cardinality(collating) = 1

\* C19: a lane claims, seeks, outputs and fills its events in ascending index
\* order: its claims ascend, the entries it fills ascend, and when it has
\* claimed an index every lower index of the source it claimed is already filled.
C19_LaneOrderAscending ==
  /\ \A j, k \in DOMAIN claimed :
       (j < k /\ claimed[j].lane = claimed[k].lane) =>
         /\ claimed[j].idx < claimed[k].idx
         /\ mayBeAbleToGoToEvent(claimed[j].idx) /\ claimed[j].idx \in FilledIds
  /\ \A j, k \in DOMAIN outputLog :
       (j < k /\ outputLog[j].lane = outputLog[k].lane) => outputLog[j].id < outputLog[k].id
  /\ \A j, k \in DOMAIN ntuple_ :
       (j < k /\ ntuple_[j].lane = ntuple_[k].lane) => ntuple_[j].id < ntuple_[k].id
  /\ \A s \in seeks : \A i \in ClaimsOf(s.lane) : i <= s.idx

\* a lane filled two events while the entries of the run are not in index order
C19_Witness ==
  /\ \E j, k \in DOMAIN ntuple_ : j < k /\ ntuple_[j].lane = ntuple_[k].lane
  /\ \E j, k \in DOMAIN ntuple_ : j < k /\ ntuple_[j].id > ntuple_[k].id

\* C20: the counter is the number of claims made and the k-th claim returned
\* k-1; a step leaves the counter alone or adds one to it, together with one
\* claim; no index of M or more is ever sought, output or filled; a lane makes
\* at most one claim of M or more, and when every lane has terminated the
\* counter is M + nLanes and every lane has made exactly one such claim.
FailingClaimsOf(l) == {i \in ClaimsOf(l) : ~mayBeAbleToGoToEvent(i)}

CounterCountsClaims ==
  /\ index = Len(claimed)
  /\ \A k \in DOMAIN claimed : claimed[k].idx = k - 1
  /\ \A i \in ClaimedIdx :
       ~mayBeAbleToGoToEvent(i) =>
         /\ \A s \in seeks : s.idx # i
         /\ \A l \in Lanes : laneEvent[l] # i /\ i \notin OutputsOf(l)
         /\ i \notin FilledIds
  /\ \A l \in Lanes : Cardinality(FailingClaimsOf(l)) <= 1
  /\ Quiescent =>
       /\ index = M + nLanes
       /\ \A l \in Lanes : Cardinality(FailingClaimsOf(l)) = 1
       /\ UNION {FailingClaimsOf(l) : l \in Lanes} = M .. (M + nLanes - 1)

CounterStep ==
  /\ index' \in {index, index + 1}
  /\ Len(claimed') = Len(claimed) + (index' - index)

C20_OneFailingClaimPerLane == []CounterCountsClaims /\ [][CounterStep]_vars

\* the run is over and the last lane to stop was not the last lane
C20_Witness ==
  /\ Quiescent
  /\ nLanes >= 2
  /\ M >= 1
  /\ index = M + nLanes
  /\ claimed[Len(claimed)].lane = 0
  /\ claimed[Len(claimed)].idx = M + nLanes - 1

====
